---- MODULE Spec2Model ----
(***************************************************************************)
(* nosync.so: an LD_PRELOAD library whose only symbol, sync(), is a no-op. *)
(*                                                                         *)
(* The model is one host process with several threads.  The library's own  *)
(* code is the body of sync() (nosync.c lines 31-34).  What surrounds it   *)
(* is modelled as the file's header comment documents it: the dynamic      *)
(* linker's preload rule (USAGE), the C library's sync() that walks all    *)
(* mounted filesystems and can hang on a 9p mount (ROOT CAUSE), and the    *)
(* C library's fsync()/syncfs() that are left alone (NOTE).                *)
(***************************************************************************)
EXTENDS Naturals, FiniteSets

\* Bounds of the model.
NumThreads == 2
NumMounts  == 2
NumFiles   == 3

Threads == 1..NumThreads
Mounts  == 1..NumMounts
\* Every file is open on one descriptor, so a descriptor names its file.
Fds     == 1..NumFiles

\* The descriptor of the disk sgdisk works on, and the filesystem holding it.
DiskFd == 1
MountOf(fd) == ((fd - 1) % NumMounts) + 1
FilesOn(m) == {fd \in Fds : MountOf(fd) = m}
\* Mounts that may hang on a flush (the 9p mounts); the disk's is not one.
SlowMounts == Mounts \ {MountOf(DiskFd)}

VARIABLES
    preloaded,  \* the process was started with LD_PRELOAD=/usr/lib/nosync.so
    hang,       \* the mounts on which a flush never comes back
    dirty,      \* the files with dirty (unflushed) buffers
    pc,         \* per thread: the function it is executing
    errno,      \* per thread: errno
    last,       \* the function the process returned from last
    step,       \* position of the caller's write / sync / fsync sequence
    start       \* dirty set when that sequence started

vars == <<preloaded, hang, dirty, pc, errno, last, step, start>>

Idle == [lib |-> "none", fn |-> "none", arg |-> 0]

\* The symbols nosync.so defines.
AllFlushExports == {"sync", "fsync", "syncfs"}
NosyncExports == {"sync"}

\* Symbol resolution: a preloaded library's definition comes first.
ResolveIgnoringPreload(fn) == "libc"
ResolveWithoutPreload(fn) == IF fn \in NosyncExports THEN "nosync" ELSE "libc"
Resolve(fn) == IF preloaded /\ fn \in NosyncExports THEN "nosync" ELSE "libc"

TypeOK ==
    /\ preloaded \in BOOLEAN
    /\ hang \subseteq SlowMounts
    /\ dirty \subseteq Fds
    /\ pc \in [Threads -> [lib : {"none", "nosync", "libc"},
                           fn  : {"none", "sync", "fsync", "syncfs"},
                           arg : 0..(NumMounts + NumFiles)]]
    /\ errno \in [Threads -> Nat]
    /\ last \in {"none", "sync", "fsync", "syncfs"}

InitProcess ==
    /\ hang \in SUBSET SlowMounts
    /\ dirty \in SUBSET Fds
    /\ pc = [t \in Threads |-> Idle]
    /\ errno = [t \in Threads |-> 0]
    /\ last = "none"

Init ==
    /\ InitProcess
    /\ preloaded \in BOOLEAN
    /\ step = "free"
    /\ start = {}

\* A thread calls fn: the call binds to the definition the linker resolved.
Call(t, fn, fd) ==
    /\ pc[t] = Idle
    /\ pc' = [pc EXCEPT ![t] = [lib |-> Resolve(fn), fn |-> fn, arg |-> fd]]

CallSync(t) ==
    /\ Call(t, "sync", 0)
    /\ UNCHANGED <<preloaded, hang, dirty, errno, last>>

CallFsync(t, fd) ==
    /\ Call(t, "fsync", fd)
    /\ UNCHANGED <<preloaded, hang, dirty, errno, last>>

CallSyncfs(t, fd) ==
    /\ Call(t, "syncfs", fd)
    /\ UNCHANGED <<preloaded, hang, dirty, errno, last>>

\* write(fd, ...): the file's buffers become dirty.
Write(t, fd) ==
    /\ pc[t] = Idle
    /\ dirty' = dirty \cup {fd}
    /\ UNCHANGED <<preloaded, hang, pc, errno, last>>

\* Returning to the caller.
Return(t) ==
    /\ pc' = [pc EXCEPT ![t] = Idle]
    /\ last' = pc[t].fn

\* Variants of the override's body that a slip would produce: forwarding to
\* the real flush, reporting an error, waiting for the mounts.
NosyncReturnFlushing(t) ==
    /\ pc[t].lib = "nosync"
    /\ Return(t)
    /\ dirty' = {}
    /\ UNCHANGED <<preloaded, hang, errno>>

NosyncReturnSettingErrno(t) ==
    /\ pc[t].lib = "nosync"
    /\ Return(t)
    /\ errno' = [errno EXCEPT ![t] = 5]
    /\ UNCHANGED <<preloaded, hang, dirty>>

NosyncReturnWaiting(t) ==
    /\ pc[t].lib = "nosync"
    /\ hang = {}
    /\ Return(t)
    /\ UNCHANGED <<preloaded, hang, dirty, errno>>

\* void sync(void) { return; }
NosyncReturn(t) ==
    /\ pc[t].lib = "nosync"
    /\ Return(t)
    /\ UNCHANGED <<preloaded, hang, dirty, errno>>

\* The C library's sync(): flushes the mounts one after the other; arg counts
\* the mounts done.  On a hanging mount the flush never comes back.
LibcSyncFlush(t) ==
    /\ pc[t].lib = "libc" /\ pc[t].fn = "sync"
    /\ pc[t].arg < NumMounts
    /\ (pc[t].arg + 1) \notin hang
    /\ dirty' = dirty \ FilesOn(pc[t].arg + 1)
    /\ pc' = [pc EXCEPT ![t].arg = @ + 1]
    /\ UNCHANGED <<preloaded, hang, errno, last>>

LibcSyncReturn(t) ==
    /\ pc[t].lib = "libc" /\ pc[t].fn = "sync"
    /\ pc[t].arg = NumMounts
    /\ Return(t)
    /\ UNCHANGED <<preloaded, hang, dirty, errno>>

\* The C library's fsync(fd): flushes the one file.
LibcFsync(t) ==
    /\ pc[t].lib = "libc" /\ pc[t].fn = "fsync"
    /\ MountOf(pc[t].arg) \notin hang
    /\ dirty' = dirty \ {pc[t].arg}
    /\ Return(t)
    /\ UNCHANGED <<preloaded, hang, errno>>

\* The C library's syncfs(fd): flushes the filesystem holding fd.
LibcSyncfs(t) ==
    /\ pc[t].lib = "libc" /\ pc[t].fn = "syncfs"
    /\ MountOf(pc[t].arg) \notin hang
    /\ dirty' = dirty \ FilesOn(MountOf(pc[t].arg))
    /\ Return(t)
    /\ UNCHANGED <<preloaded, hang, errno>>

\* A step that is not one of the sgdisk sequence's own.
NoSequence == UNCHANGED <<step, start>>

\* A host process whose threads write, sync, fsync and syncfs at will.
Next ==
    \E t \in Threads :
        \/ CallSync(t) /\ NoSequence
        \/ \E fd \in Fds : CallFsync(t, fd) /\ NoSequence
        \/ \E fd \in Fds : CallSyncfs(t, fd) /\ NoSequence
        \/ \E fd \in Fds : Write(t, fd) /\ NoSequence
        \/ NosyncReturn(t) /\ NoSequence
        \/ LibcSyncFlush(t) /\ NoSequence
        \/ LibcSyncReturn(t) /\ NoSequence
        \/ LibcFsync(t) /\ NoSequence
        \/ LibcSyncfs(t) /\ NoSequence

Spec == Init /\ [][Next]_vars

\* A host process, preloaded or not, whose threads write and call sync().
NextSyncCalls ==
    \E t \in Threads :
        \/ CallSync(t) /\ NoSequence
        \/ \E fd \in Fds : Write(t, fd) /\ NoSequence
        \/ NosyncReturn(t) /\ NoSequence
        \/ LibcSyncFlush(t) /\ NoSequence
        \/ LibcSyncReturn(t) /\ NoSequence

SyncCallsSpec == Init /\ [][NextSyncCalls]_vars

\* The scheduler runs a thread that is at the override's return statement.
FairSyncCallsSpec ==
    SyncCallsSpec /\ \A t \in Threads : WF_vars(NosyncReturn(t) /\ NoSequence)

\* A preloaded process whose threads do nothing but invoke sync().
InitSyncOnly ==
    /\ InitProcess
    /\ preloaded = TRUE
    /\ step = "free"
    /\ start = {}

NextSyncOnly ==
    \E t \in Threads :
        \/ CallSync(t) /\ NoSequence
        \/ NosyncReturn(t) /\ NoSequence

SyncOnlySpec == InitSyncOnly /\ [][NextSyncOnly]_vars

\* sgdisk's DiskSync() in a preloaded process: thread 1 writes the disk, calls
\* sync() and follows with fsync(fd); the other threads may call sync() too.
InitSgdisk ==
    /\ InitProcess
    /\ preloaded = TRUE
    /\ step = "write"
    /\ start = dirty

SgdiskWrite ==
    /\ step = "write"
    /\ Write(1, DiskFd)
    /\ step' = "sync"
    /\ UNCHANGED start

SgdiskSync ==
    /\ step = "sync"
    /\ CallSync(1)
    /\ step' = "fsync"
    /\ UNCHANGED start

SgdiskFsync ==
    /\ step = "fsync"
    /\ CallFsync(1, DiskFd)
    /\ step' = "done"
    /\ UNCHANGED start

SgdiskThread ==
    \/ SgdiskWrite
    \/ SgdiskSync
    \/ SgdiskFsync
    \/ NosyncReturn(1) /\ NoSequence
    \/ LibcFsync(1) /\ NoSequence

OtherThreads ==
    \E t \in Threads \ {1} :
        \/ CallSync(t) /\ NoSequence
        \/ NosyncReturn(t) /\ NoSequence

NextSgdisk == SgdiskThread \/ OtherThreads

SgdiskSpec == InitSgdisk /\ [][NextSgdisk]_vars

\* The scheduler runs sgdisk's thread whenever it can take a step.
FairSgdiskSpec == SgdiskSpec /\ WF_vars(SgdiskThread)

(***************************************************************************)
(* Properties                                                              *)
(***************************************************************************)

InOverride(t) == pc[t].lib = "nosync"
AllIdle == \A t \in Threads : pc[t] = Idle

\* A step of thread t that belongs to one of its sync() invocations in a
\* preloaded process: the call, or a step taken inside it.
SyncStep(t) ==
    /\ preloaded
    /\ pc'[t] # pc[t]
    /\ (pc[t].fn = "sync" \/ pc'[t].fn = "sync")

\* C1: in a preloaded process no step of a sync() invocation flushes
\* anything or changes any process state: the dirty set, errno, the mounts
\* and the other threads are as before, and the step taken inside the call
\* is the return to the caller.
C1_SyncNoFlush ==
    [][\A t \in Threads : SyncStep(t) =>
          /\ UNCHANGED <<dirty, errno, hang, preloaded>>
          /\ \A u \in Threads \ {t} : pc'[u] = pc[u]
          /\ (pc[t].fn = "sync" => pc'[t] = Idle)]_vars

\* A preloaded process that has returned from sync() with every file still dirty.
C1_Witness ==
    /\ preloaded
    /\ last = "sync"
    /\ AllIdle
    /\ dirty = Fds

\* C2: fsync and syncfs always bind to the C library, preloaded or not, and
\* when they return fsync(fd) has flushed exactly fd's file and syncfs(fd)
\* exactly the files of fd's filesystem.
C2_FsyncSyncfsReal ==
    [][\A t \in Threads :
          /\ (pc'[t].fn \in {"fsync", "syncfs"}) => pc'[t].lib = "libc"
          /\ (pc[t].fn = "fsync" /\ pc'[t] = Idle) =>
                dirty' = dirty \ {pc[t].arg}
          /\ (pc[t].fn = "syncfs" /\ pc'[t] = Idle) =>
                dirty' = dirty \ FilesOn(MountOf(pc[t].arg))]_vars

\* A preloaded process just back from fsync(DiskFd): the disk is clean and
\* every other file, on its filesystem and elsewhere, is still dirty; another
\* thread is inside the C library's syncfs.
C2_Witness ==
    /\ preloaded
    /\ last = "fsync"
    /\ dirty = Fds \ {DiskFd}
    /\ \E fd \in dirty : MountOf(fd) = MountOf(DiskFd)
    /\ \E t \in Threads : pc[t].fn = "syncfs" /\ pc[t].lib = "libc"

\* C3: in a preloaded process every call of sync() returns to its caller,
\* whatever mounts hang.
C3_OverrideReturns ==
    \A t \in Threads : (preloaded /\ pc[t].fn = "sync") ~> (pc[t] = Idle)

\* The C library's sync() stuck on a hanging mount.
LibcSyncHung ==
    \E t \in Threads :
        /\ pc[t].lib = "libc" /\ pc[t].fn = "sync"
        /\ pc[t].arg < NumMounts
        /\ (pc[t].arg + 1) \in hang

\* A preloaded process back from sync() although a hanging mount holds dirty
\* buffers.
C3_Witness ==
    /\ preloaded
    /\ last = "sync"
    /\ \E fd \in dirty : MountOf(fd) \in hang

\* C4: in a process whose threads only invoke the override, in any number and
\* any interleaving, no step changes the dirty set, errno or the mounts, and
\* a step of one caller leaves every other caller where it was.
C4_InvocationsLeaveNoChange ==
    [][/\ UNCHANGED <<dirty, errno, hang, preloaded>>
       /\ \E t \in Threads : \A u \in Threads \ {t} : pc'[u] = pc[u]]_vars

\* Two threads inside the override at once, after an earlier invocation
\* returned, with dirty buffers present.
C4_Witness ==
    /\ Cardinality({t \in Threads : InOverride(t)}) >= 2
    /\ last = "sync"
    /\ dirty # {}

\* C5: without the preload every sync() call binds to the C library, whose
\* sync flushes the mounts one by one and returns only after all of them.
C5_NoPreloadRealSync ==
    [][~preloaded => \A t \in Threads :
          /\ (pc'[t].fn = "sync") => pc'[t].lib = "libc"
          /\ (pc[t] = Idle /\ pc'[t].fn = "sync") => pc'[t].arg = 0
          /\ (pc[t].fn = "sync" /\ pc'[t].fn = "sync" /\ pc'[t] # pc[t]) =>
                /\ pc'[t].arg = pc[t].arg + 1
                /\ dirty' \cap FilesOn(pc'[t].arg) = {}
          /\ (pc[t].fn = "sync" /\ pc'[t] = Idle) => pc[t].arg = NumMounts]_vars

\* A process without the preload back from sync() with nothing left dirty.
C5_Witness ==
    /\ ~preloaded
    /\ last = "sync"
    /\ AllIdle
    /\ dirty = {}

\* C6: in a preloaded process no thread is ever inside the C library's sync.
C6_SyncAlwaysOverridden ==
    preloaded => \A t \in Threads : pc[t].fn = "sync" => pc[t].lib = "nosync"

\* Every thread of a preloaded process inside sync() after an earlier call
\* has already returned.
C6_Witness ==
    /\ preloaded
    /\ last = "sync"
    /\ \A t \in Threads : pc[t].fn = "sync"

\* C7: the only step a thread takes inside the override is a normal return,
\* and it leaves the thread's errno as it was.
C7_OverrideCannotFail ==
    [][\A t \in Threads : (InOverride(t) /\ pc'[t] # pc[t]) =>
          /\ pc'[t] = Idle
          /\ errno'[t] = errno[t]]_vars

\* Back from the override with errno clear in every thread.
C7_Witness ==
    /\ preloaded
    /\ last = "sync"
    /\ \E t \in Threads : pc[t] = Idle
    /\ \A t \in Threads : errno[t] = 0

\* The write / sync() / fsync(fd) sequence has run to its end.
SequenceDone == step = "done" /\ pc[1] = Idle

====
